---- MODULE Spec2Model ----
(***************************************************************************)
(* AST construction layer of the PEG toolkit (src/source/ast.hpp).         *)
(*                                                                         *)
(* The model covers the lightweight RTTI (PARSELIB_RTTI / isa / get_as),   *)
(* the shared node stack, the member slots (ASTPtr mandatory / optional,   *)
(* ASTList) and their reduction from the stack, the factory bound by       *)
(* ast<T>, the top-level parse driver and the typed parse wrapper.         *)
(*                                                                         *)
(* Nodes live in a heap `nodes` (a sequence; a node's address is its       *)
(* index, 0 is the null pointer).  Deleted nodes stay in the heap with     *)
(* alive = FALSE so that a dangling pointer remains observable.            *)
(***************************************************************************)
EXTENDS Integers, Sequences, FiniteSets, TLC

(***************************************************************************)
(* Bounds                                                                  *)
(***************************************************************************)
\* number of nodes that may ever be allocated in one behaviour
MaxNodes == 4

\* number of nodes that may ever be allocated in a behaviour that copies
\* the tree of one of the CopyInputs
MaxHeap == 8

(***************************************************************************)
(* A node class hierarchy declared with PARSELIB_RTTI(thisclass, super).   *)
(*   Id, Num  : leaves directly below ASTNode                              *)
(*   Stmt     : container                                                  *)
(*   Decl     : Stmt      { ASTPtr<Id> name; ASTPtr<Num, true> init; }     *)
(*   VarDecl  : Decl      (inherits the two slots of Decl)                 *)
(*   Block    : container { ASTList<Stmt> body; }                          *)
(*   Pair     : container { ASTPtr<Decl> first; ASTPtr<Id> second; }       *)
(***************************************************************************)
Null == 0

UserClasses == {"Id", "Num", "Stmt", "Decl", "VarDecl", "Block", "Pair"}

Classes == {"ASTNode", "ASTContainer"} \cup UserClasses

\* the `superclass` argument of PARSELIB_RTTI for every class below ASTNode
superclass ==
    [ASTContainer |-> "ASTNode",
     Id           |-> "ASTNode",
     Num          |-> "ASTNode",
     Stmt         |-> "ASTContainer",
     Decl         |-> "Stmt",
     VarDecl      |-> "Decl",
     Block        |-> "ASTContainer",
     Pair         |-> "ASTContainer"]

\* the member slots of each class, in declaration (= registration) order
members ==
    [ASTNode      |-> <<>>,
     ASTContainer |-> <<>>,
     Id           |-> <<>>,
     Num          |-> <<>>,
     Stmt         |-> <<>>,
     Decl         |-> << [kind |-> "ptr", T |-> "Id"], [kind |-> "opt", T |-> "Num"] >>,
     VarDecl      |-> << [kind |-> "ptr", T |-> "Id"], [kind |-> "opt", T |-> "Num"] >>,
     Block        |-> << [kind |-> "list", T |-> "Stmt"] >>,
     Pair         |-> << [kind |-> "ptr", T |-> "Decl"], [kind |-> "ptr", T |-> "Id"] >>]

\* the C++ inheritance relation: T is c or a base class of c, transitively
RECURSIVE IsSelfOrAncestor(_, _)
IsSelfOrAncestor(T, c) ==
    IF T = c THEN TRUE
    ELSE IF c = "ASTNode" THEN FALSE
    ELSE IsSelfOrAncestor(T, superclass[c])

(***************************************************************************)
(* Lightweight RTTI                                                        *)
(***************************************************************************)
\* static char thisclass##id; return &thisclass##id  -- one address per class
classKind(T) == T

\* virtual kind(): the classKind of the class whose override is called
kind(c) == classKind(c)

\* isa that also answers true for a class derived from the node's class
isa_downward(c, x) ==
    \/ x = kind(c)
    \/ (c # "ASTNode" /\ kind(superclass[c]) = x)
    \/ (x # "ASTNode" /\ kind(superclass[x]) = c)

\* virtual bool isa(char *x) of a node whose concrete class is c
isa(c, x) ==
    IF c = "ASTNode"
    THEN x = classKind("ASTNode")
    ELSE (x = kind(c)) \/ (kind(superclass[c]) = x)

\* template <class T> bool isa()
isaT(c, T) == isa(c, classKind(T))

\* template <class T> T* get_as() on the node at address n
get_as(h, n, T) == IF isaT(h[n].type, T) THEN n ELSE Null

(***************************************************************************)
(* Sequence helpers                                                        *)
(***************************************************************************)
Front(s) == SubSeq(s, 1, Len(s) - 1)

Back(s) == s[Len(s)]

Range(s) == {s[i] : i \in DOMAIN s}

(***************************************************************************)
(* State                                                                   *)
(***************************************************************************)
VARIABLES
    nodes,      \* the heap: nodes[n] = [type, parent_node, alive, slots]
    st,         \* ASTStack: the shared stack of node addresses, top is last
    pending,    \* matching engine: nodes pushed by rules whose enclosing
                \* bound rule has not succeeded yet (the open match forest)
    pc,         \* "matching" | "done" | "typed"
    result,     \* the ASTNode* returned by parse (Null: no node)
    typed,      \* outcome of the typed wrapper: [T, ret, ast]
    held,       \* raw pointers to copies the caller made and owns
    fault,      \* "none", or the undefined behaviour the run has hit
    last        \* record of the last operation and of its slot reductions

vars == <<nodes, st, pending, pc, result, typed, held, fault, last>>

\* a node right after `new T()`: ASTNode() sets parent_node(0), every
\* ASTPtr starts with ptr(0) and every ASTList with no child_objects.
\* A slot value is the sequence of the addresses it owns (ASTPtr: 0 or 1).
RECURSIVE EmptySlots(_)
EmptySlots(k) == IF k = 0 THEN <<>> ELSE Append(EmptySlots(k - 1), <<>>)

RECURSIVE NoContainers(_)
NoContainers(k) == IF k = 0 THEN <<>> ELSE Append(NoContainers(k - 1), Null)

\* regs is ASTContainer::members, the registered slots, each named by the
\* node that holds it and its index there; cont[k] is the container_node
\* of the node's slot k.  Both are filled by the registration of the slots.
NewNode(T) ==
    [type        |-> T,
     parent_node |-> Null,
     alive       |-> TRUE,
     slots       |-> EmptySlots(Len(members[T])),
     regs        |-> <<>>,
     cont        |-> NoContainers(Len(members[T]))]

\* classes that derive from ASTContainer (their constructors run
\* ASTContainer's, which makes the node the container under construction)
IsContainer(T) == IsSelfOrAncestor("ASTContainer", T)

\* ASTMember::_init for slot k of node obj while cur is the container under
\* construction: the slot records cur and joins cur's members
_init(h, cur, obj, k) ==
    [h EXCEPT ![obj].cont[k] = cur,
              ![cur].regs = Append(@, [n |-> obj, k |-> k])]

\* a nested construction that leaves itself as the container under
\* construction
Restore_none(saved, nested) == nested

\* the container under construction after a nested container was built:
\* the one saved before the nested construction
Restore(saved, nested) == saved

\* `new T()`: ASTContainer() makes the new node the container under
\* construction, then its slots are built in declaration order
RECURSIVE InitMembers(_, _, _)
InitMembers(h, obj, k) ==
    IF k > Len(members[h[obj].type]) THEN h
    ELSE InitMembers(_init(h, obj, obj, k), obj, k + 1)

New(h, T) == InitMembers(Append(h, NewNode(T)), Len(h) + 1, 1)

\* ASTMember::container() of slot k of node n
container(h, n, k) == h[n].cont[k]

\* all addresses owned by the slots of node n, in slot order
RECURSIVE FlattenFrom(_, _)
FlattenFrom(ss, i) ==
    IF i > Len(ss) THEN <<>> ELSE ss[i] \o FlattenFrom(ss, i + 1)

Owned(h, n) == FlattenFrom(h[n].slots, 1)

\* `delete p`: the destructor of every slot deletes what it owns
RECURSIVE Delete(_, _), DeleteAll(_, _)
DeleteAll(h, ps) ==
    IF ps = <<>> THEN h ELSE DeleteAll(Delete(h, Head(ps)), Tail(ps))

Delete(h, p) ==
    IF p = Null \/ ~h[p].alive THEN h
    ELSE DeleteAll([h EXCEPT ![p].alive = FALSE], Owned(h, p))

(***************************************************************************)
(* Slot reduction.  A reduction state o is                                 *)
(*   [h, st, fault, calls]  (heap, stack, fault, log of the slot calls).   *)
(* Every construct returns the SET of states the call can end in.          *)
(***************************************************************************)
Call(k, m, pre, post, val, oob) ==
    [k |-> k, kind |-> m.kind, T |-> m.T, pre |-> pre, post |-> post,
     val |-> val, oob |-> oob]

\* ASTPtr::construct without st.pop_back(): the node stays on the stack
PtrConstruct_nopop(o, n, k, m) ==
    LET OPT == (m.kind = "opt")
        ptr == o.h[n].slots[k]
    IN  IF o.st = <<>>
        THEN {[o EXCEPT !.fault = "crash",
                        !.calls = Append(@, Call(k, m, o.st, o.st, ptr, TRUE))]}
        ELSE LET node == Back(o.st)
                 obj  == get_as(o.h, node, m.T)
             IN  IF OPT /\ obj = Null
                 THEN {[o EXCEPT !.calls =
                          Append(@, Call(k, m, o.st, o.st, ptr, FALSE))]}
                 ELSE LET h1  == DeleteAll(o.h, ptr)
                          val == IF obj = Null THEN <<>> ELSE <<obj>>
                          h2  == [h1 EXCEPT ![n].slots[k] = val]
                          h3  == IF obj = Null THEN h2
                                 ELSE [h2 EXCEPT ![obj].parent_node =
                                                     container(h2, n, k)]
                      IN  {[o EXCEPT !.h = h3,
                                     !.calls = Append(@,
                                        Call(k, m, o.st, o.st, val, FALSE))]}

\* ASTPtr<T, OPT>::construct for slot k of node n
PtrConstruct(o, n, k, m) ==
    LET OPT == (m.kind = "opt")
        ptr == o.h[n].slots[k]
    IN  IF o.st = <<>>
        THEN \* st.back() on an empty vector reads before the buffer
             {[o EXCEPT !.fault = "crash",
                        !.calls = Append(@, Call(k, m, o.st, o.st, ptr, TRUE))]}
             \cup
             (IF OPT
              THEN \* the garbage read did not look like a T: return
                   {[o EXCEPT !.calls =
                        Append(@, Call(k, m, o.st, o.st, ptr, TRUE))]}
              ELSE \* st.pop_back() on the empty vector
                   {[o EXCEPT !.fault = "underflow",
                              !.calls =
                        Append(@, Call(k, m, o.st, o.st, <<>>, TRUE))]})
        ELSE LET node == Back(o.st)
                 obj  == get_as(o.h, node, m.T)
             IN  IF OPT /\ obj = Null
                 THEN {[o EXCEPT !.calls =
                          Append(@, Call(k, m, o.st, o.st, ptr, FALSE))]}
                 ELSE LET h1  == DeleteAll(o.h, ptr)
                          val == IF obj = Null THEN <<>> ELSE <<obj>>
                          h2  == [h1 EXCEPT ![n].slots[k] = val]
                          h3  == IF obj = Null THEN h2
                                 ELSE [h2 EXCEPT ![obj].parent_node =
                                                     container(h2, n, k)]
                      IN  {[o EXCEPT !.h = h3, !.st = Front(o.st),
                                     !.calls = Append(@,
                                        Call(k, m, o.st, Front(o.st), val, FALSE))]}

\* the loop with push_back in place of push_front
RECURSIVE ListLoop_pushback(_, _, _, _, _)
ListLoop_pushback(h, s, n, k, T) ==
    IF s = <<>> THEN [h |-> h, st |-> s]
    ELSE LET node == Back(s)
             obj  == get_as(h, node, T)
         IN  IF obj = Null THEN [h |-> h, st |-> s]
             ELSE ListLoop_pushback(
                           [h EXCEPT ![n].slots[k] = @ \o <<obj>>,
                                     ![obj].parent_node = container(h, n, k)],
                           Front(s), n, k, T)

\* the loop of ASTList<T>::construct: heap and stack after it
RECURSIVE ListLoop(_, _, _, _, _)
ListLoop(h, s, n, k, T) ==
    IF s = <<>> THEN [h |-> h, st |-> s]
    ELSE LET node == Back(s)
             obj  == get_as(h, node, T)
         IN  IF obj = Null THEN [h |-> h, st |-> s]
             ELSE ListLoop([h EXCEPT ![n].slots[k] = <<obj>> \o @,
                                     ![obj].parent_node = container(h, n, k)],
                           Front(s), n, k, T)

\* ASTList<T>::construct for slot k of node n
ListConstruct(o, n, k, m) ==
    LET r == ListLoop(o.h, o.st, n, k, m.T)
    IN  {[o EXCEPT !.h = r.h, !.st = r.st,
                   !.calls = Append(@,
                       Call(k, m, o.st, r.st, r.h[n].slots[k], FALSE))]}

\* ASTMember::construct of slot k of node n, dispatched on the slot's class
MemberConstruct(o, n, k) ==
    LET m == members[o.h[n].type][k]
    IN  IF m.kind = "list" THEN ListConstruct(o, n, k, m)
        ELSE PtrConstruct(o, n, k, m)

\* the members construct themselves in registration order
RECURSIVE ContainerConstruct_forward(_, _, _)
ContainerConstruct_forward(o, n, i) ==
    IF i = 0 \/ o.fault # "none" THEN {o}
    ELSE LET m == o.h[n].regs[Len(o.h[n].regs) - i + 1]
         IN  UNION {ContainerConstruct_forward(o2, n, i - 1) :
                       o2 \in MemberConstruct(o, m.n, m.k)}

\* ASTContainer::construct: the registered members construct themselves in
\* reverse order, from members[i] down to members[1]
RECURSIVE ContainerConstruct(_, _, _)
ContainerConstruct(o, n, i) ==
    IF i = 0 \/ o.fault # "none" THEN {o}
    ELSE LET m == o.h[n].regs[i]
         IN  UNION {ContainerConstruct(o2, n, i - 1) :
                       o2 \in MemberConstruct(o, m.n, m.k)}

\* obj->construct(range, st): ASTNode::construct is a no-op on a leaf
construct(o, n) ==
    IF IsContainer(o.h[n].type)
    THEN ContainerConstruct(o, n, Len(o.h[n].regs))
    ELSE {o}

(***************************************************************************)
(* Operations                                                              *)
(***************************************************************************)
NoTyped == [T |-> "none", ret |-> FALSE, ast |-> Null, deref |-> FALSE]

Op(op, node, type, pre, kids, red, calls) ==
    [op |-> op, node |-> node, type |-> type, pre |-> pre, kids |-> kids,
     red |-> red, calls |-> calls]

Init ==
    /\ nodes = <<>>
    /\ st = <<>>
    /\ pending = <<>>
    /\ pc = "matching"
    /\ result = Null
    /\ typed = NoTyped
    /\ held = {}
    /\ fault = "none"
    /\ last = Op("init", Null, "none", <<>>, <<>>, <<>>, <<>>)

\* the factory with st->push_back(obj) before obj->construct(r, *st)
Factory_pushfirst(T, j) ==
    /\ pc = "matching"
    /\ fault = "none"
    /\ Len(nodes) < MaxNodes
    /\ j <= Len(pending)
    /\ LET obj  == Len(nodes) + 1
           kids == SubSeq(pending, Len(pending) - j + 1, Len(pending))
           o0   == [h |-> New(nodes, T), st |-> Append(st, obj),
                    fault |-> "none", calls |-> <<>>]
       IN  \E o \in construct(o0, obj) :
              /\ nodes' = o.h
              /\ fault' = o.fault
              /\ st' = o.st
              /\ pending' = Append(SubSeq(pending, 1, Len(pending) - j), obj)
              /\ last' = Op("ast", obj, T, st, kids, o.st, o.calls)
    /\ UNCHANGED <<pc, result, typed, held>>

\* the factory bound by ast<T>: T *obj = new T(); obj->construct(r, *st);
\* st->push_back(obj).  The rule of T succeeded with its last j pending
\* nodes as the immediate AST-producing children matched inside it.
Factory(T, j) ==
    /\ pc = "matching"
    /\ fault = "none"
    /\ Len(nodes) < MaxNodes
    /\ j <= Len(pending)
    /\ LET obj  == Len(nodes) + 1
           kids == SubSeq(pending, Len(pending) - j + 1, Len(pending))
           o0   == [h |-> New(nodes, T), st |-> st,
                    fault |-> "none", calls |-> <<>>]
       IN  \E o \in construct(o0, obj) :
              /\ nodes' = o.h
              /\ fault' = o.fault
              /\ st' = IF o.fault = "none" THEN Append(o.st, obj) ELSE o.st
              /\ pending' = Append(SubSeq(pending, 1, Len(pending) - j), obj)
              /\ last' = Op("ast", obj, T, st, kids, o.st, o.calls)
    /\ UNCHANGED <<pc, result, typed, held>>

\* ASTNode *parse(i, g, ws, el, d): no node on a grammar failure (no parse
\* procedure has run); on success the single node left on the stack
parse(ok) ==
    IF ~ok THEN [node |-> Null, fault |-> "none"]
    ELSE IF Len(st) = 1 THEN [node |-> st[1], fault |-> "none"]
    ELSE [node |-> Null, fault |-> "shape"]

CanParse(ok) ==
    /\ pc = "matching"
    /\ fault = "none"
    /\ ~ok => nodes = <<>>

\* a caller of the untyped parse
Parse(ok) ==
    /\ CanParse(ok)
    /\ LET r == parse(ok)
       IN  /\ result' = r.node
           /\ fault' = r.fault
           /\ last' = Op("parse", r.node, IF ok THEN "ok" ELSE "fail",
                         st, pending, <<>>, <<>>)
    /\ pc' = "done"
    /\ st' = <<>>
    /\ pending' = <<>>
    /\ UNCHANGED <<nodes, typed, held>>

\* ASTParserDelegate::parse<T>: node = parse(...); ast = node->get_as<T>();
\* if (ast) return true; delete node; return false
TypedOutcomes(node, T) ==
    IF node = Null
    THEN \* node->get_as<T>() calls the virtual isa through a null pointer
         { [h |-> nodes, fault |-> "nullderef",
            t |-> [T |-> T, ret |-> FALSE, ast |-> Null, deref |-> TRUE]],
           [h |-> nodes, fault |-> "none",
            t |-> [T |-> T, ret |-> FALSE, ast |-> Null, deref |-> TRUE]] }
    ELSE LET ast == get_as(nodes, node, T)
         IN  IF ast # Null
             THEN { [h |-> nodes, fault |-> "none",
                     t |-> [T |-> T, ret |-> TRUE, ast |-> ast, deref |-> FALSE]] }
             ELSE { [h |-> Delete(nodes, node), fault |-> "none",
                     t |-> [T |-> T, ret |-> FALSE, ast |-> Null, deref |-> FALSE]] }

TypedParse(ok, T) ==
    /\ CanParse(ok)
    /\ LET r == parse(ok)
       IN  /\ result' = r.node
           /\ last' = Op("typed", r.node, IF ok THEN "ok" ELSE "fail",
                         st, pending, <<>>, <<>>)
           /\ IF r.fault # "none"
              THEN /\ fault' = r.fault
                   /\ UNCHANGED <<nodes, typed>>
              ELSE \E t \in TypedOutcomes(r.node, T) :
                      /\ nodes' = t.h
                      /\ fault' = t.fault
                      /\ typed' = t.t
    /\ pc' = "typed"
    /\ st' = <<>>
    /\ pending' = <<>>
    /\ UNCHANGED held

(***************************************************************************)
(* Value copies, made by the caller on the tree parse returned             *)
(***************************************************************************)
\* `new T(*src)`: the copy constructor of class T applied to the node at
\* src.  ASTNode(const ASTNode &) sets parent_node(0); the members of T are
\* copy-constructed in declaration order; ASTPtr(const ASTPtr &) takes
\* ptr(src.ptr ? new T(*src.ptr) : 0) and then _set_parent().
\* ASTContainer(const ASTContainer &) makes the copy the container under
\* construction and copies no member; every slot of the copy registers
\* itself (ASTMember(const ASTMember &) calls _init) before its pointee is
\* copied.  cur is the container under construction.
\* Result: [h |-> heap, p |-> address of the copy, cur |-> container under
\* construction afterwards].
\* a copy that keeps the parent of its source
CopyNode_parent(h, src, T) ==
    [NewNode(T) EXCEPT !.parent_node = h[src].parent_node]

\* ASTNode(const ASTNode &n) : parent_node(0), for a copy of class T
CopyNode(h, src, T) == NewNode(T)

\* a copy that starts with the registration list of its source
ContainerCopy_members(h, obj, src) ==
    [h EXCEPT ![obj].regs = h[src].regs]

\* ASTContainer(const ASTContainer &src) for the copy obj: "Members are not
\* copied", the registration list starts empty
ContainerCopy(h, obj, src) == [h EXCEPT ![obj].regs = <<>>]

RECURSIVE CopyFrom(_, _, _, _), CopyMembers(_, _, _, _, _)
CopyMembers(h, obj, src, k, cur) ==
    IF k > Len(members[h[obj].type]) THEN [h |-> h, cur |-> cur]
    ELSE LET h0 == _init(h, cur, obj, k)
         IN  IF h0[src].slots[k] = <<>>
             THEN CopyMembers(h0, obj, src, k + 1, cur)
             ELSE LET r  == CopyFrom(h0, h0[src].slots[k][1],
                                     members[h0[obj].type][k].T, cur)
                      h1 == [r.h EXCEPT ![obj].slots[k] = <<r.p>>,
                                        ![r.p].parent_node =
                                            container(r.h, obj, k)]
                  IN  CopyMembers(h1, obj, src, k + 1, r.cur)

CopyFrom(h, src, T, cur) ==
    LET obj == Len(h) + 1
        h0  == Append(h, CopyNode(h, src, T))
    IN  IF IsContainer(T)
        THEN LET r == CopyMembers(ContainerCopy(h0, obj, src), obj, src, 1, obj)
             IN  [h |-> r.h, p |-> obj, cur |-> Restore(cur, r.cur)]
        ELSE [h |-> h0, p |-> obj, cur |-> cur]

\* `new T(*src)` by code that is not building a container
CopyAs(h, src, T) ==
    LET r == CopyFrom(h, src, T, Null) IN [h |-> r.h, p |-> r.p]

\* classes whose copy constructor and assignment instantiate: the copy of
\* an ASTList (_dup: new T(*it), with *it a T*) needs a constructor T(T*),
\* which no class of the hierarchy declares
Copyable(T) == \A k \in DOMAIN members[T] : members[T][k].kind # "list"

\* the root of the tree a node belongs to
RECURSIVE RootOf(_, _)
RootOf(h, n) ==
    IF h[n].parent_node = Null THEN n ELSE RootOf(h, h[n].parent_node)

\* the nodes the caller can name: those of the trees it holds
Access ==
    {n \in DOMAIN nodes :
        /\ nodes[n].alive
        /\ RootOf(nodes, n) \in (held \cup {result})}

CanUse ==
    /\ pc = "done"
    /\ fault = "none"

\* T *c = new T(*n), T the class of n, with room for cap nodes
CloneIn(n, cap) ==
    /\ CanUse
    /\ n \in Access
    /\ IF Copyable(nodes[n].type)
       THEN LET r == CopyAs(nodes, n, nodes[n].type)
            IN  /\ Len(r.h) <= cap
                /\ nodes' = r.h
                /\ held' = held \cup {r.p}
                /\ last' = Op("clone", r.p, nodes[n].type, <<n>>,
                              <<>>, <<>>, <<>>)
                /\ UNCHANGED fault
       ELSE \* the copy constructor of an ASTList member does not compile
            /\ fault' = "ill-formed"
            /\ last' = Op("clone", Null, nodes[n].type, <<n>>,
                          <<>>, <<>>, <<>>)
            /\ UNCHANGED <<nodes, held>>
    /\ UNCHANGED <<st, pending, pc, result, typed>>

Clone(n) == CloneIn(n, MaxNodes)

\* an assignment that takes the source pointer instead of a copy
PtrAssign_shallow(h, d, k, p) ==
    LET h1 == DeleteAll(h, h[d].slots[k])
    IN  {[h |-> [h1 EXCEPT ![d].slots[k] = IF p = Null THEN <<>> ELSE <<p>>],
          fault |-> "none", uaf |-> FALSE]}

\* ASTPtr::operator=: delete ptr; ptr = p ? new T(*p) : 0; _set_parent()
\* for slot k of node d and the source pointer p (src.ptr, or obj).
\* Result: the set of [h, fault, uaf] the assignment can end in; uaf tells
\* that a destroyed node was read.
PtrAssign(h, d, k, p) ==
    LET T  == members[h[d].type][k].T
        h1 == DeleteAll(h, h[d].slots[k])
    IN  IF p = Null
        THEN {[h |-> [h1 EXCEPT ![d].slots[k] = <<>>], fault |-> "none",
               uaf |-> FALSE]}
        ELSE LET r  == CopyAs(h1, p, T)
                 h2 == [r.h EXCEPT ![d].slots[k] = <<r.p>>,
                                   ![r.p].parent_node = container(r.h, d, k)]
             IN  IF h1[p].alive
                 THEN {[h |-> h2, fault |-> "none", uaf |-> FALSE]}
                 ELSE \* *p was deleted by `delete ptr`: the copy
                      \* constructor reads freed memory
                      {[h |-> h1, fault |-> "use-after-free", uaf |-> TRUE],
                       [h |-> h2, fault |-> "none", uaf |-> TRUE]}

SlotPtr(h, n, k) == IF h[n].slots[k] = <<>> THEN Null ELSE h[n].slots[k][1]

IsSlot(n, k) == k \in DOMAIN members[nodes[n].type]

IsPtrSlot(n, k) ==
    /\ IsSlot(n, k)
    /\ members[nodes[n].type][k].kind \in {"ptr", "opt"}

\* the log entry of one slot assignment: pre is what the target held, post
\* what the source held, val what the target holds afterwards
AssignCall(h, d, k, src, r) ==
    [k |-> k, kind |-> "assign", T |-> members[h[d].type][k].T,
     pre |-> h[d].slots[k], post |-> src, val |-> r.h[d].slots[k],
     oob |-> r.uaf]

\* ASTList::operator=: _clear(); _dup(src) does not compile (see Copyable)
IllFormed(h) == [h |-> h, fault |-> "ill-formed", uaf |-> FALSE]

\* the assignment operator of slot k of node d applied to a source slot
\* that holds src
SlotAssign(h, d, k, src) ==
    LET m == members[h[d].type][k]
    IN  IF m.kind = "list" \/ ~Copyable(m.T)
        THEN {IllFormed(h)}
        ELSE PtrAssign(h, d, k, IF src = <<>> THEN Null ELSE src[1])

\* d->slot_k = s->slot_j, both slots of the same class
AssignSlotIn(d, k, s, j, cap) ==
    /\ CanUse
    /\ d \in Access /\ s \in Access
    /\ IsSlot(d, k) /\ IsSlot(s, j)
    /\ members[nodes[d].type][k] = members[nodes[s].type][j]
    /\ \E r \in SlotAssign(nodes, d, k, nodes[s].slots[j]) :
          /\ Len(r.h) <= cap
          /\ nodes' = r.h
          /\ fault' = r.fault
          /\ last' = Op("assign", d, nodes[d].type, <<s>>, <<>>, <<>>,
                        <<AssignCall(nodes, d, k, nodes[s].slots[j], r)>>)
    /\ UNCHANGED <<st, pending, pc, result, typed, held>>

AssignSlot(d, k, s, j) == AssignSlotIn(d, k, s, j, MaxNodes)

\* d->slot_k = obj, obj a T* (a node whose class is T or derives from T)
AssignRawIn(d, k, obj, cap) ==
    /\ CanUse
    /\ d \in Access
    /\ IsPtrSlot(d, k)
    /\ obj # Null => /\ obj \in Access
                     /\ IsSelfOrAncestor(members[nodes[d].type][k].T,
                                         nodes[obj].type)
    /\ Copyable(members[nodes[d].type][k].T)
    /\ LET src == IF obj = Null THEN <<>> ELSE <<obj>>
       IN  \E r \in PtrAssign(nodes, d, k, obj) :
              /\ Len(r.h) <= cap
              /\ nodes' = r.h
              /\ fault' = r.fault
              /\ last' = Op("assignraw", d, nodes[d].type, src, <<>>, <<>>,
                            <<AssignCall(nodes, d, k, src, r)>>)
    /\ UNCHANGED <<st, pending, pc, result, typed, held>>

AssignRaw(d, k, obj) == AssignRawIn(d, k, obj, MaxNodes)

\* ASTContainer::operator= and ASTNode::operator= for *d = *s: return *this
ContainerAssign(h, d, s) == h

\* the member-wise part of the implicit operator= of the class of d and s,
\* from slot k on; o is [h, fault, calls]
RECURSIVE AssignMembers(_, _, _, _)
AssignMembers(o, d, s, k) ==
    IF k > Len(members[o.h[d].type]) \/ o.fault # "none" THEN {o}
    ELSE UNION {AssignMembers(
                    [h |-> r.h, fault |-> r.fault,
                     calls |-> Append(o.calls,
                                 AssignCall(o.h, d, k, o.h[s].slots[k], r))],
                    d, s, k + 1) :
                  r \in SlotAssign(o.h, d, k, o.h[s].slots[k])}

\* *d = *s, d and s nodes of the same class
AssignNodeIn(d, s, cap) ==
    /\ CanUse
    /\ d \in Access /\ s \in Access
    /\ nodes[d].type = nodes[s].type
    /\ \E o \in AssignMembers([h |-> ContainerAssign(nodes, d, s),
                               fault |-> "none", calls |-> <<>>], d, s, 1) :
          /\ Len(o.h) <= cap
          /\ nodes' = o.h
          /\ fault' = o.fault
          /\ last' = Op("assignnode", d, nodes[d].type, <<s>>, <<>>, <<>>,
                        o.calls)
    /\ UNCHANGED <<st, pending, pc, result, typed, held>>

AssignNode(d, s) == AssignNodeIn(d, s, MaxNodes)

\* delete p, p a tree the caller owns ("must be deleted by the caller")
Release(p) ==
    /\ CanUse
    /\ p \in (held \cup {result}) \cap Access
    /\ nodes' = Delete(nodes, p)
    /\ held' = held \ {p}
    /\ last' = Op("release", p, nodes[p].type, <<>>, <<>>, <<>>, <<>>)
    /\ UNCHANGED <<st, pending, pc, result, typed, fault>>

\* the addresses and slot indices the caller's operations range over
Addr == 1..MaxNodes

SlotIdx == UNION {DOMAIN members[c] : c \in Classes}

\* the classes the typed wrapper is instantiated with: the root of the
\* hierarchy, a class with derived classes two levels deep, a derived class
\* and a leaf
TypedTargets == {"ASTNode", "Stmt", "Decl", "Id"}

Next ==
    \/ \E T \in UserClasses, j \in 0..MaxNodes : Factory(T, j)
    \/ \E ok \in BOOLEAN : Parse(ok)
    \/ \E ok \in BOOLEAN, T \in TypedTargets : TypedParse(ok, T)
    \/ \E n \in Addr : Clone(n)
    \/ \E d \in Addr, s \in Addr, k \in SlotIdx, j \in SlotIdx : AssignSlot(d, k, s, j)
    \/ \E d \in Addr, k \in SlotIdx, obj \in {Null} \cup Addr : AssignRaw(d, k, obj)
    \/ \E d \in Addr, s \in Addr : AssignNode(d, s)
    \/ \E p \in Addr : Release(p)

Spec == Init /\ [][Next]_vars

(***************************************************************************)
(* Copies of whole trees.  The inputs are fixed: each is the sequence of   *)
(* factory invocations <<T, j>> of one successful parse.                   *)
(***************************************************************************)
CopyInputs ==
    { << <<"Id", 0>>, <<"Decl", 1>>, <<"Id", 0>>, <<"Pair", 2>> >>,
      << <<"Id", 0>>, <<"VarDecl", 1>>, <<"Id", 0>>, <<"Pair", 2>> >> }

\* the factory invocation that comes next in one of the inputs
FactoryOf(T, j) ==
    /\ \E inp \in CopyInputs :
          /\ Len(nodes) < Len(inp)
          /\ inp[Len(nodes) + 1] = <<T, j>>
          /\ \A i \in DOMAIN nodes : nodes[i].type = inp[i][1]
    /\ Factory(T, j)

\* parse returns once the whole input is matched
ParseOf ==
    /\ \E inp \in CopyInputs :
          /\ Len(nodes) = Len(inp)
          /\ \A i \in DOMAIN nodes : nodes[i].type = inp[i][1]
    /\ Parse(TRUE)

HeapAddr == 1..MaxHeap

NextCopy ==
    \/ \E T \in UserClasses, j \in 0..MaxNodes : FactoryOf(T, j)
    \/ ParseOf
    \/ \E n \in HeapAddr : CloneIn(n, MaxHeap)
    \/ \E d \in HeapAddr, s \in HeapAddr : AssignNodeIn(d, s, MaxHeap)
    \/ \E p \in HeapAddr : Release(p)

SpecCopy == Init /\ [][NextCopy]_vars

(***************************************************************************)
(* Helpers of the properties                                               *)
(***************************************************************************)
Live == {n \in DOMAIN nodes : nodes[n].alive}

IsPrefix(s, t) == Len(s) <= Len(t) /\ SubSeq(t, 1, Len(s)) = s

Calls == {last.calls[i] : i \in DOMAIN last.calls}

\* the slot call c faced an empty stack or a top that does not match its T
FacesNoMatch(c) ==
    \/ c.pre = <<>>
    \/ get_as(nodes, Back(c.pre), c.T) = Null

RECURSIVE Popped(_)
Popped(cs) ==
    IF cs = <<>> THEN 0
    ELSE (Len(Head(cs).pre) - Len(Head(cs).post)) + Popped(Tail(cs))

\* number of slots of any live node, and of stack positions, that hold p
Holders(p) ==
    Cardinality({<<n, k, i>> \in Live \X SlotIdx \X Addr :
                    /\ k \in DOMAIN nodes[n].slots
                    /\ i \in DOMAIN nodes[n].slots[k]
                    /\ nodes[n].slots[k][i] = p})
    + Cardinality({i \in DOMAIN st : st[i] = p})

(***************************************************************************)
(* C1: on a node of concrete class C, isa<T>() is true and get_as<T>() is  *)
(* non-null for T = C and for every ancestor T of C, transitively, up to   *)
(* ASTContainer and ASTNode.                                               *)
(***************************************************************************)
C1_IsaSelfOrAnyAncestor ==
    \A n \in Live : \A T \in Classes :
        IsSelfOrAncestor(T, nodes[n].type) =>
            /\ isaT(nodes[n].type, T)
            /\ get_as(nodes, n, T) = n

(***************************************************************************)
(* C2: isa<T>() is false and get_as<T>() is null whenever T is neither the *)
(* node's concrete class nor one of its ancestors (siblings, descendants); *)
(* the typed wrapper, which downcasts with get_as, then never succeeds.    *)
(***************************************************************************)
C2_IsaFalseForUnrelated ==
    /\ \A n \in Live : \A T \in Classes :
          ~IsSelfOrAncestor(T, nodes[n].type) =>
              /\ ~isaT(nodes[n].type, T)
              /\ get_as(nodes, n, T) = Null
    /\ (pc = "typed" /\ typed.ret) =>
          IsSelfOrAncestor(typed.T, nodes[result].type)

\* the typed wrapper downcast a returned node to a sibling class (one that
\* shares only a proper common ancestor) or to a descendant class
C2_Witness ==
    /\ pc = "typed"
    /\ fault = "none"
    /\ result # Null
    /\ typed.T \in UserClasses
    /\ ~IsSelfOrAncestor(typed.T, nodes[result].type)
    /\ ~typed.ret
    /\ typed.ast = Null

(***************************************************************************)
(* C3: ASTList<T>::construct on an empty list: the objects are the nodes   *)
(* taken from the top of the stack, in the order they were pushed; when    *)
(* the stack holds exactly N nodes of type T (N >= 0), objects() is        *)
(* exactly c1..cN.                                                         *)
(***************************************************************************)
C3_ListKeepsPushOrder ==
    \A c \in Calls :
        c.kind = "list" =>
            /\ c.pre = c.post \o c.val
            /\ (\A i \in DOMAIN c.pre : nodes[c.pre[i]].type = c.T) =>
                  c.val = c.pre

\* a list slot took at least two nodes of its type, all the stack held
C3_Witness ==
    /\ last.op = "ast"
    /\ \E c \in Calls :
          /\ c.kind = "list"
          /\ Len(c.pre) >= 2
          /\ \A i \in DOMAIN c.pre : nodes[c.pre[i]].type = c.T
          /\ c.val = c.pre
          /\ c.pre[1] < c.pre[2]

(***************************************************************************)
(* C4: an optional slot that faces an empty stack or a non-matching top    *)
(* leaves the stack as it was, reads nothing out of bounds, and holds no   *)
(* child afterwards.                                                       *)
(***************************************************************************)
C4_OptionalLeavesStack ==
    \A c \in Calls :
        (c.kind = "opt" /\ FacesNoMatch(c)) =>
            /\ c.post = c.pre
            /\ ~c.oob
            /\ c.val = <<>>
            /\ fault = "none"

(***************************************************************************)
(* C5: one reduction pass of a container removes from the stack exactly    *)
(* the nodes pushed by the immediate AST-producing children matched inside *)
(* the container's own rule.  Stated for Block, whose single list slot     *)
(* fits a rule Block := Stmt* with any number of Stmt children.            *)
(***************************************************************************)
C5_ReductionTakesOwnChildren ==
    (/\ last.op = "ast"
     /\ fault = "none"
     /\ last.type = "Block"
     /\ \A i \in DOMAIN last.kids : nodes[last.kids[i]].type = "Stmt") =>
        /\ IsPrefix(last.red, last.pre)
        /\ SubSeq(last.pre, Len(last.red) + 1, Len(last.pre)) = last.kids

(***************************************************************************)
(* C6: the typed wrapper returns true exactly when parse returned a node   *)
(* whose class is T or a descendant of T, and then outputs it; otherwise   *)
(* it returns false, outputs no node, leaves no node alive and never       *)
(* dereferences an absent node.                                            *)
(***************************************************************************)
C6_TypedParse ==
    (pc = "typed" /\ fault # "shape") =>
        /\ fault = "none"
        /\ ~typed.deref
        /\ typed.ret <=>
              (result # Null /\ IsSelfOrAncestor(typed.T, nodes[result].type))
        /\ typed.ret => typed.ast = result
        /\ ~typed.ret => typed.ast = Null
        /\ (~typed.ret /\ result # Null) => ~nodes[result].alive

(***************************************************************************)
(* C7: a mandatory slot that faces an empty stack or a non-matching top    *)
(* lets the reduction continue without any error and ends holding no       *)
(* child.                                                                  *)
(***************************************************************************)
C7_MandatoryTolerates ==
    \A c \in Calls :
        (c.kind = "ptr" /\ FacesNoMatch(c)) =>
            /\ fault = "none"
            /\ ~c.oob
            /\ c.val = <<>>

Consumed(obj) ==
    Len(Owned(nodes, obj))
    + Cardinality({i \in DOMAIN last.calls :
                      /\ last.calls[i].kind = "ptr"
                      /\ last.calls[i].val = <<>>
                      /\ Len(last.calls[i].post) < Len(last.calls[i].pre)})

C10_SingleOwner ==
    /\ \A p \in Live : Holders(p) <= 1
    /\ \A c \in Calls :
          (c.kind \in {"ptr", "opt"} /\ c.val # <<>> /\ c.post # c.pre) =>
              c.val = <<Back(c.pre)>>
    /\ last.op = "ast" => Len(nodes) = last.node

\* an assignment replaced the child a slot had taken from the stack by a
\* copy of a node that is still alive
C10_Witness ==
    /\ last.op = "assignraw"
    /\ fault = "none"
    /\ last.pre # <<>>
    /\ nodes[last.pre[1]].alive
    /\ last.pre[1] # Len(nodes)
    /\ Holders(Len(nodes)) = 1
    /\ nodes[Len(nodes)].parent_node = last.node
    /\ \E p \in DOMAIN nodes : ~nodes[p].alive

(***************************************************************************)
(* C11: copy-constructing the slots of a node yields slots that own fresh  *)
(* nodes, distinct from every node of the source: a pointer slot holds a   *)
(* duplicate of the pointee (nothing if the source is empty), a list slot  *)
(* one duplicate per element in the same order; the source is unchanged.   *)
(***************************************************************************)
C11_CopyOwnsFreshDuplicates ==
    last.op = "clone" =>
        /\ fault = "none"
        /\ last.node # Null
        /\ LET c == last.node
               s == last.pre[1]
           IN  /\ nodes[s].alive
               /\ \A k \in DOMAIN nodes[s].slots :
                     /\ Len(nodes[c].slots[k]) = Len(nodes[s].slots[k])
                     /\ \A i \in DOMAIN nodes[s].slots[k] :
                           LET p == nodes[s].slots[k][i]
                               q == nodes[c].slots[k][i]
                           IN  /\ nodes[p].alive
                               /\ nodes[q].alive
                               /\ q > c
                               /\ q # p
                               /\ nodes[q].type = nodes[p].type

(***************************************************************************)
(* C12: the slots of a container are invoked in reverse of registration    *)
(* order: when all K slots of the class are mandatory and the top K nodes  *)
(* of the stack were pushed in the order n1..nK with ni of the class of    *)
(* slot i, then after the reduction slot i owns ni for every i and the K   *)
(* nodes are gone from the stack.                                          *)
(***************************************************************************)
AllMandatory(T) ==
    /\ members[T] # <<>>
    /\ \A k \in DOMAIN members[T] : members[T][k].kind = "ptr"

\* the stack position that the claim pairs with slot i of a class with K slots
TopK(pre, K, i) == pre[Len(pre) - K + i]

C12_ReverseOrderPairsSlots ==
    LET K == Len(members[last.type])
    IN  (/\ last.op = "ast"
         /\ AllMandatory(last.type)
         /\ Len(last.pre) >= K
         /\ \A i \in 1..K :
               nodes[TopK(last.pre, K, i)].type = members[last.type][i].T) =>
            /\ fault = "none"
            /\ \A i \in 1..K :
                  /\ nodes[last.node].slots[i] = <<TopK(last.pre, K, i)>>
                  /\ last.calls[i].k = K - i + 1
            /\ last.red = SubSeq(last.pre, 1, Len(last.pre) - K)

\* a class with two mandatory slots of different classes was reduced from a
\* stack whose top two nodes had been pushed in declaration order
C12_Witness ==
    /\ last.op = "ast"
    /\ fault = "none"
    /\ AllMandatory(last.type)
    /\ Len(members[last.type]) = 2
    /\ members[last.type][1].T # members[last.type][2].T
    /\ Len(last.pre) = 2
    /\ nodes[last.pre[1]].type = members[last.type][1].T
    /\ nodes[last.pre[2]].type = members[last.type][2].T
    /\ Owned(nodes, last.node) = last.pre
    /\ st = <<last.node>>

C14_ListTakesMaximalRun ==
    \A c \in Calls :
        c.kind = "list" =>
            /\ ~c.oob
            /\ IsPrefix(c.post, c.pre)
            /\ \A i \in (Len(c.post) + 1)..Len(c.pre) :
                  IsSelfOrAncestor(c.T, nodes[c.pre[i]].type)
            /\ c.post # <<>> =>
                  ~IsSelfOrAncestor(c.T, nodes[Back(c.post)].type)

(***************************************************************************)
(* C15: for every assignment to a slot, from another slot, a raw node, the *)
(* target slot itself or the node it already owns: no destroyed node is    *)
(* read, the nodes the target owned are destroyed, and afterwards the      *)
(* target owns a duplicate of what the source held immediately before,     *)
(* while the source is unchanged.                                          *)
(***************************************************************************)
C15_AssignmentIsSafe ==
    \A c \in Calls :
        c.kind = "assign" =>
            /\ fault = "none"
            /\ ~c.oob
            /\ \A p \in Range(c.pre) : ~nodes[p].alive
            /\ Len(c.val) = Len(c.post)
            /\ \A i \in DOMAIN c.post :
                  /\ nodes[c.post[i]].alive
                  /\ nodes[c.val[i]].alive
                  /\ c.val[i] # c.post[i]

(***************************************************************************)
(* C16: a container's registration list always contains exactly that       *)
(* container's own slots: a copy-constructed container has a registration  *)
(* list made only of its own freshly registered slots, none of the         *)
(* source's; assigning one container to another changes the registration   *)
(* list and the parent of neither.                                         *)
(***************************************************************************)
RECURSIVE OwnSlots(_, _)
OwnSlots(n, K) ==
    IF K = 0 THEN <<>> ELSE Append(OwnSlots(n, K - 1), [n |-> n, k |-> K])

OwnerSlots(p) ==
    {<<n, k>> \in Live \X SlotIdx :
        /\ k \in DOMAIN nodes[n].slots
        /\ p \in Range(nodes[n].slots[k])}

C17_ParentIsOwningContainer ==
    \A p \in Live :
        /\ \A o \in OwnerSlots(p) :
              nodes[p].parent_node = container(nodes, o[1], o[2])
        /\ OwnerSlots(p) = {} => nodes[p].parent_node = Null

\* a slot that had taken its child from the stack was assigned a fresh copy,
\* which the caller still holds unowned
C17_Witness ==
    /\ last.op = "assignraw"
    /\ fault = "none"
    /\ last.pre # <<>>
    /\ last.pre[1] \in held
    /\ nodes[last.pre[1]].alive
    /\ nodes[last.pre[1]].parent_node = Null
    /\ \E c \in Calls :
          /\ c.pre # <<>>
          /\ c.val # <<>>
          /\ nodes[c.val[1]].alive
          /\ nodes[c.val[1]].parent_node = last.node

(***************************************************************************)
(* C18: no node is orphaned by a reduction: every node a slot removes from *)
(* the stack is, right after the call, owned by that slot; so while the    *)
(* parse runs every live node is on the stack or owned by a slot of a live *)
(* node.                                                                   *)
(***************************************************************************)
C18_NoOrphans ==
    /\ \A c \in Calls :
          c.kind \in {"ptr", "opt", "list"} =>
              \A i \in (Len(c.post) + 1)..Len(c.pre) :
                  c.pre[i] \in Range(c.val)
    /\ (pc = "matching" /\ fault = "none") =>
          \A p \in Live : p \in Range(st) \/ OwnerSlots(p) # {}

====
